---- MODULE Spec2Model ----
(***************************************************************************)
(* Model of the GraphQL/Relay video server of graphql-egghead:             *)
(*   src/index.js          schema with the Relay createVideo mutation      *)
(*   src/unnamed/part_000  the same schema with the plain createVideo      *)
(*   src/src/node.js       the node interface (id fetcher, type resolver)  *)
(* Strings are sequences of one-character strings, so that base64, the     *)
(* global-id and the cursor conversions are computed, not assumed.         *)
(***************************************************************************)
EXTENDS Integers, Sequences, FiniteSets, TLC

\* ------------------------------------------------------------- bounds
\* how many videos createVideo may add to the two initial ones
MaxCreated == 2
\* largest value offered for the first / last arguments
MaxArg == 3
\* largest offset of a stored video for which a cursor is offered as after
\* or before
MaxCursor == 1

\* ------------------------------------------------------------ strings
\* The printable ASCII characters, code 32 (space) to 126 (~); the grave
\* accent (code 96) is written GRAVE.
Ascii ==
  << " ", "!", "\"", "#", "$", "%", "&", "'", "(", ")", "*", "+", ",", "-",
     ".", "/", "0", "1", "2", "3", "4", "5", "6", "7", "8", "9", ":", ";",
     "<", "=", ">", "?", "@", "A", "B", "C", "D", "E", "F", "G", "H", "I",
     "J", "K", "L", "M", "N", "O", "P", "Q", "R", "S", "T", "U", "V", "W",
     "X", "Y", "Z", "[", "\\", "]", "^", "_", "GRAVE", "a", "b", "c", "d", "e",
     "f", "g", "h", "i", "j", "k", "l", "m", "n", "o", "p", "q", "r", "s",
     "t", "u", "v", "w", "x", "y", "z", "{", "|", "}", "~" >>

\* What a byte that is no printable ASCII character decodes to.
Replacement == "U+FFFD"

\* String.prototype.indexOf(c) + 1: the first position of c, 0 when absent.
IndexOf(seq, c) ==
  LET at == { i \in 1..Len(seq) : seq[i] = c }
  IN  IF at = {} THEN 0 ELSE CHOOSE i \in at : \A j \in at : i <= j

AsciiIndex == [c \in { Ascii[i] : i \in 1..Len(Ascii) } |-> IndexOf(Ascii, c)]

CharCode(c) == 31 + AsciiIndex[c]

CharOf(b) == IF b >= 32 /\ b <= 126 THEN Ascii[b - 31] ELSE Replacement

\* String.prototype.substring(from) and substring(0, to), 0-based as in JS.
SubstringFrom(s, from) == SubSeq(s, from + 1, Len(s))

SubstringTo(s, to) == SubSeq(s, 1, to)

\* String.prototype.toLowerCase on ASCII letters.
ToLowerCase(s) ==
  [i \in 1..Len(s) |->
     IF s[i] \in DOMAIN AsciiIndex /\ AsciiIndex[s[i]] >= 34 /\ AsciiIndex[s[i]] <= 59
       THEN Ascii[AsciiIndex[s[i]] + 32]
       ELSE s[i]]

\* ------------------------------------------------------------- base64
B64 ==
  << "A", "B", "C", "D", "E", "F", "G", "H", "I", "J", "K", "L", "M", "N",
     "O", "P", "Q", "R", "S", "T", "U", "V", "W", "X", "Y", "Z", "a", "b",
     "c", "d", "e", "f", "g", "h", "i", "j", "k", "l", "m", "n", "o", "p",
     "q", "r", "s", "t", "u", "v", "w", "x", "y", "z", "0", "1", "2", "3",
     "4", "5", "6", "7", "8", "9", "+", "/" >>

\* The conversions are recursive functions of the text (a sequence of
\* bytes or of characters). EncodeBytes: every three bytes give four
\* characters; a last group of one or two bytes is padded with =.
EncodeBytes[b \in Seq(0..255)] ==
  IF Len(b) = 0 THEN << >>
  ELSE IF Len(b) = 1 THEN
    << B64[(b[1] \div 4) + 1], B64[((b[1] % 4) * 16) + 1], "=", "=" >>
  ELSE IF Len(b) = 2 THEN
    << B64[(b[1] \div 4) + 1],
       B64[((b[1] % 4) * 16) + (b[2] \div 16) + 1],
       B64[((b[2] % 16) * 4) + 1], "=" >>
  ELSE
    << B64[(b[1] \div 4) + 1],
       B64[((b[1] % 4) * 16) + (b[2] \div 16) + 1],
       B64[((b[2] % 16) * 4) + (b[3] \div 64) + 1],
       B64[(b[3] % 64) + 1] >> \o EncodeBytes[SubSeq(b, 4, Len(b))]

CharCodes[s \in Seq(STRING)] ==
  IF Len(s) = 0 THEN << >> ELSE << CharCode(s[1]) >> \o CharCodes[Tail(s)]

\* base64(i): Buffer.from(i, utf8).toString(base64)
base64(s) == EncodeBytes[CharCodes[s]]

B64Index == [c \in { B64[i] : i \in 1..Len(B64) } |-> IndexOf(B64, c)]

\* The 6-bit value of a base64 character (- and _ are read as + and /), or
\* -1 for a character outside the alphabet.
Sextet(c) ==
  IF c = "-" THEN 62
  ELSE IF c = "_" THEN 63
  ELSE IF c \in DOMAIN B64Index THEN B64Index[c] - 1
  ELSE -1

\* The sextets of the input: the decoder ends at the first = and skips
\* every character outside the alphabet.
Sextets[s \in Seq(STRING)] ==
  IF Len(s) = 0 \/ s[1] = "=" THEN << >>
  ELSE IF Sextet(s[1]) < 0 THEN Sextets[Tail(s)]
  ELSE << Sextet(s[1]) >> \o Sextets[Tail(s)]

\* Every four sextets give three bytes; three give two, two give one, and a
\* single last sextet gives none.
DecodeSextets[x \in Seq(0..63)] ==
  IF Len(x) < 2 THEN << >>
  ELSE IF Len(x) = 2 THEN << (x[1] * 4) + (x[2] \div 16) >>
  ELSE IF Len(x) = 3 THEN
    << (x[1] * 4) + (x[2] \div 16), ((x[2] % 16) * 16) + (x[3] \div 4) >>
  ELSE
    << (x[1] * 4) + (x[2] \div 16),
       ((x[2] % 16) * 16) + (x[3] \div 4),
       ((x[3] % 4) * 64) + x[4] >> \o DecodeSextets[SubSeq(x, 5, Len(x))]

BytesToText[b \in Seq(0..255)] ==
  IF Len(b) = 0 THEN << >> ELSE << CharOf(b[1]) >> \o BytesToText[Tail(b)]

\* unbase64(i): Buffer.from(i, base64).toString(utf8); it never throws.
unbase64(s) == BytesToText[DecodeSextets[Sextets[s]]]

\* -------------------------------------------------- numbers and text
Digits == << "0", "1", "2", "3", "4", "5", "6", "7", "8", "9" >>

IsDigit(c) == IndexOf(Digits, c) > 0

\* Number.prototype.toString of an integer.
NatToString[n \in Nat] ==
  IF n < 10 THEN << Digits[n + 1] >>
  ELSE NatToString[n \div 10] \o << Digits[(n % 10) + 1] >>

NumToString(n) == IF n < 0 THEN << "-" >> \o NatToString[0 - n] ELSE NatToString[n]

SkipSpaces[s \in Seq(STRING)] ==
  IF Len(s) > 0 /\ s[1] = " " THEN SkipSpaces[Tail(s)] ELSE s

DigitPrefix[s \in Seq(STRING)] ==
  IF Len(s) > 0 /\ IsDigit(s[1]) THEN << s[1] >> \o DigitPrefix[Tail(s)] ELSE << >>

DigitsValue[d \in Seq(STRING)] ==
  IF Len(d) = 0 THEN 0
  ELSE (DigitsValue[SubSeq(d, 1, Len(d) - 1)] * 10) + (IndexOf(Digits, d[Len(d)]) - 1)

\* The number a text that is a sign and digits, or digits, stands for.
SignedValue[t \in Seq(STRING)] ==
  LET signed == Len(t) > 0 /\ t[1] \in {"+", "-"}
      d == DigitPrefix[IF signed THEN Tail(t) ELSE t]
  IN  IF d = << >> THEN << >>
      ELSE IF signed /\ t[1] = "-" THEN << 0 - DigitsValue[d] >>
      ELSE << DigitsValue[d] >>

\* parseInt(s, 10): leading blanks, an optional sign, then the longest run of
\* digits. The result is an option: << >> is NaN, << n >> the number n.
parseInt(s) == SignedValue[SkipSpaces[s]]

\* ------------------------------------------- graphql-relay: global ids
VideoName == << "V", "i", "d", "e", "o" >>

\* toGlobalId(type, id) = base64(type + ':' + id)
toGlobalId(type, id) == base64(type \o << ":" >> \o id)

\* fromGlobalId: the text before the first ':' is the type, the text after
\* it the id. Without a ':' indexOf gives -1: substring(0, -1) is the empty
\* string and substring(0) the whole text.
fromGlobalId(globalId) ==
  LET unbasedGlobalId == unbase64(globalId)
      delimiterPos == IndexOf(unbasedGlobalId, ":") - 1
  IN  [type |-> SubstringTo(unbasedGlobalId, delimiterPos),
       id   |-> SubstringFrom(unbasedGlobalId, delimiterPos + 1)]

\* --------------------------------------------- graphql-relay: cursors
PREFIX ==
  << "a", "r", "r", "a", "y", "c", "o", "n", "n", "e", "c", "t", "i", "o", "n", ":" >>

\* Mutant: cursors count from 1.
offsetToCursor_OneBased(offset) == base64(PREFIX \o NumToString(offset + 1))

offsetToCursor(offset) == base64(PREFIX \o NumToString(offset))

\* cursorToOffset: the prefix is cut off by its length, it is not compared.
cursorToOffset(cursor) == parseInt(SubstringFrom(unbase64(cursor), Len(PREFIX)))

\* An optional argument is << >> when it is not given and << v >> when it is.
\* The request without pagination arguments:
NoArgs == [first |-> << >>, last |-> << >>, after |-> << >>, before |-> << >>]

\* Mutant: the default is forgotten for a cursor that is not given.
getOffsetWithDefault_NoDefault(cursor, defaultOffset) ==
  IF cursor = << >> THEN 0
  ELSE LET offset == cursorToOffset(cursor[1])
       IN  IF offset = << >> THEN defaultOffset ELSE offset[1]

getOffsetWithDefault(cursor, defaultOffset) ==
  IF cursor = << >> THEN defaultOffset
  ELSE LET offset == cursorToOffset(cursor[1])
       IN  IF offset = << >> THEN defaultOffset ELSE offset[1]

Max(a, b) == IF a >= b THEN a ELSE b

Min(a, b) == IF a <= b THEN a ELSE b

\* Array.prototype.slice(begin, end) with 0 <= begin.
Slice(arr, begin, end) ==
  LET e == IF end < 0 THEN Max(Len(arr) + end, 0) ELSE Min(end, Len(arr))
  IN  SubSeq(arr, begin + 1, e)

\* if (after): a cursor that is given and is not the empty string
Truthy(cursor) == cursor # << >> /\ cursor[1] # << >>

\* Mutant: only first is checked.
argumentError_FirstOnly(args) ==
  IF args.first # << >> /\ args.first[1] < 0
    THEN "Argument first must be a non-negative integer"
  ELSE ""

\* The two argument checks of connectionFromArraySlice: the message of the
\* error thrown, "" when none is.
argumentError(args) ==
  IF args.first # << >> /\ args.first[1] < 0
    THEN "Argument first must be a non-negative integer"
  ELSE IF args.last # << >> /\ args.last[1] < 0
    THEN "Argument last must be a non-negative integer"
  ELSE ""

\* Mutant: >= for >.
hasPreviousPage_AtLeast(args, startOffset, lowerBound) ==
  IF args.last # << >> THEN startOffset >= lowerBound ELSE FALSE

\* hasPreviousPage: typeof last === number ? startOffset > lowerBound : false
hasPreviousPage(args, startOffset, lowerBound) ==
  IF args.last # << >> THEN startOffset > lowerBound ELSE FALSE

\* hasNextPage: typeof first === number ? endOffset < upperBound : false
hasNextPage(args, endOffset, upperBound) ==
  IF args.first # << >> THEN endOffset < upperBound ELSE FALSE

\* connectionFromArray(data, args) = connectionFromArraySlice(data, args,
\* {sliceStart: 0, arrayLength: data.length}). The result is an error (a
\* negative first or last) or the connection.
connectionFromArray(data, args) ==
  LET arrayLength == Len(data)
      beforeOffset == getOffsetWithDefault(args.before, arrayLength)
      afterOffset == getOffsetWithDefault(args.after, -1)
      startOffset0 == Max(-1, afterOffset) + 1
      endOffset0 == Min(arrayLength, beforeOffset)
      endOffset == IF args.first # << >>
                     THEN Min(endOffset0, startOffset0 + args.first[1])
                     ELSE endOffset0
      startOffset == IF args.last # << >>
                       THEN Max(startOffset0, endOffset - args.last[1])
                       ELSE startOffset0
      slice == Slice(data, startOffset, arrayLength - (arrayLength - endOffset))
      edges == [i \in 1..Len(slice) |->
                  [cursor |-> offsetToCursor(startOffset + (i - 1)),
                   node   |-> slice[i]]]
      lowerBound == IF Truthy(args.after) THEN afterOffset + 1 ELSE 0
      upperBound == IF Truthy(args.before) THEN beforeOffset ELSE arrayLength
  IN  IF argumentError(args) # ""
        THEN [error |-> argumentError(args)]
        ELSE [error |-> "",
              edges |-> edges,
              pageInfo |->
                [startCursor |-> IF Len(edges) > 0 THEN << edges[1].cursor >> ELSE << >>,
                 endCursor   |-> IF Len(edges) > 0 THEN << edges[Len(edges)].cursor >> ELSE << >>,
                 hasPreviousPage |-> hasPreviousPage(args, startOffset, lowerBound),
                 hasNextPage     |-> hasNextPage(args, endOffset, upperBound)]]

\* ------------------------------------------------------ the video store
\* ./src/data: the list of videos and its three capabilities. The two
\* initial videos are the ones the example outputs show (local ids a and b).
videoA ==
  [id |-> << "a" >>,
   title |-> << "C", "r", "e", "a", "t", "e", " ", "a", " ", "G", "r", "a", "p",
                "h", "Q", "L", " ", "S", "c", "h", "e", "m", "a" >>,
   duration |-> 120]

videoB ==
  [id |-> << "b" >>,
   title |-> << "E", "m", "b", "e", "r", ".", "j", "s", " ", "C", "L", "I" >>,
   duration |-> 240]

InitialVideos == << videoA, videoB >>

\* getVideos(): the whole list (delivered through a promise).
getVideos(store) == store

\* getVideoById(id): the video with this local id, or nothing (<< >>).
getVideoById(id, store) ==
  IF \E i \in 1..Len(store) : store[i].id = id
    THEN << store[CHOOSE i \in 1..Len(store) :
                    store[i].id = id /\ \A j \in 1..(i-1) : store[j].id # id] >>
    ELSE << >>

\* getObjectById(type, id): fetch by (lower-case) type name and local id;
\* nothing for a type the store does not hold.
getObjectById(type, id, store) ==
  IF type = ToLowerCase(VideoName) THEN getVideoById(id, store) ELSE << >>

\* The local id given to the next created video: the videos are numbered.
NewId(store) == NumToString(Len(store) + 1)

\* createVideo({title, duration, released}): the new video, appended.
createVideo(fields, store) ==
  LET video == [id |-> NewId(store),
                title |-> fields.title,
                duration |-> fields.duration,
                released |-> fields.released]
  IN  [video |-> video, videos |-> Append(store, video)]

\* ----------------------------------------------------------- the schema
\* Mutant: the type name and the local id change places.
globalIdField_Swapped(typeName, obj) == toGlobalId(obj.id, typeName)

\* globalIdField(): the id field of a type resolves to
\* toGlobalId(<name of the type>, obj.id).
globalIdField(typeName, obj) == toGlobalId(typeName, obj.id)

\* videoType: the fields a client reads off a video; a field the object
\* lacks is null (<< >>).
videoType(obj) ==
  [id |-> globalIdField(VideoName, obj),
   title |-> obj.title,
   duration |-> obj.duration,
   watched |-> IF "watched" \in DOMAIN obj THEN << obj.watched >> ELSE << >>]

\* VideoConnection.totalCount: conn.edges.length
totalCount(conn) == Len(conn.edges)

\* Mutant: the arguments of the query are not passed on.
videosResolve_NoArgs(args, store) == connectionFromArray(getVideos(store), NoArgs)

\* queryType.videos.resolve: connectionFromPromisedArray(getVideos(), args)
videosResolve(args, store) == connectionFromArray(getVideos(store), args)

\* Mutant: the type name is not lower-cased.
idFetcher_CaseKept(globalId, store) ==
  LET decoded == fromGlobalId(globalId)
  IN  getObjectById(decoded.type, decoded.id, store)

\* The id fetcher given to nodeDefinitions.
idFetcher(globalId, store) ==
  LET decoded == fromGlobalId(globalId)
  IN  getObjectById(ToLowerCase(decoded.type), decoded.id, store)

\* The type resolver given to nodeDefinitions: if (object.title) is false
\* for an object without a title and for the empty title.
typeResolver(object) ==
  IF "title" \in DOMAIN object /\ object.title # << >> THEN "Video" ELSE "null"

\* mutationType.createVideo.resolve of the plain schema: createVideo(args.video)
createVideoResolve(args, store) == createVideo(args.video, store)

\* videoMutation.mutateAndGetPayload: createVideo(args), wrapped as {video}
mutateAndGetPayload(args, store) ==
  LET made == createVideo(args, store)
  IN  [payload |-> [video |-> made.video], videos |-> made.videos]

\* ------------------------------------------------------------- requests
Option(S) == { << >> } \cup { << x >> : x \in S }

\* Cursors a client may send: the cursors of offsets 0..MaxCursor, the empty
\* string, a cursor of a negative offset, a stale cursor of an offset beyond
\* the end of the list, and a text that is no base64.
CursorInputs ==
  { offsetToCursor(i) : i \in 0..MaxCursor }
    \cup { << >>,
           offsetToCursor(-2),
           offsetToCursor(9),
           << "!", "!" >> }

ArgsInputs ==
  [first : Option(-1..MaxArg), last : Option(-1..MaxArg),
   after : Option(CursorInputs), before : Option(CursorInputs)]

MissingId == << "z", "z" >>

\* Texts that are no global id of a video: no separator, no base64, the
\* empty text, a type the store does not hold, a global id sent unencoded.
MalformedIdInputs ==
  { base64(VideoName \o << "a" >>),
    << "!", "!" >>,
    << >>,
    base64(<< "A", "u", "d", "i", "o", ":", "a" >>),
    VideoName \o << ":", "a" >> }

\* The global id of video a with its type name in lower case.
LowerCaseId == base64(<< "v", "i", "d", "e", "o", ":", "a" >>)

GlobalIdInputs(store) ==
  { toGlobalId(VideoName, store[i].id) : i \in 1..Len(store) }
    \cup { toGlobalId(VideoName, MissingId), LowerCaseId }
    \cup MalformedIdInputs

Foo == << "F", "o", "o" >>

VideoInputs == [title : { << >>, Foo }, duration : { 300 }, released : { FALSE }]

ClientMutationIds == { "abcd" }

\* ---------------------------------------------------------------- state
\* videos: the list of ./src/data. response: what the request being served
\* has produced, [op |-> "none"] between two requests. created: the inputs
\* of the createVideo mutations served so far, in order (a history).
VARIABLES videos, response, created

vars == << videos, response, created >>

Idle == [op |-> "none"]

Init ==
  /\ videos = InitialVideos
  /\ response = Idle
  /\ created = << >>

\* query { videos(args) { edges { cursor node {...} } pageInfo {...} totalCount } }
QueryVideos ==
  /\ response = Idle
  /\ \E args \in ArgsInputs :
       LET conn == videosResolve(args, videos)
       IN  response' =
             IF conn.error # ""
               THEN [op |-> "videos", args |-> args, status |-> "error",
                     error |-> conn.error]
               ELSE [op |-> "videos", args |-> args, status |-> "data",
                     edges |-> [i \in 1..Len(conn.edges) |->
                                  [cursor |-> conn.edges[i].cursor,
                                   node |-> videoType(conn.edges[i].node)]],
                     pageInfo |-> conn.pageInfo,
                     totalCount |-> totalCount(conn)]
  /\ UNCHANGED << videos, created >>

\* query { node(id: globalId) { id ... on Video {...} } }: the id fetcher,
\* then, for an object, the type resolver; an object whose type does not
\* resolve is a field error.
QueryNode ==
  /\ response = Idle
  /\ \E globalId \in GlobalIdInputs(videos) :
       LET object == idFetcher(globalId, videos)
       IN  response' =
             IF object = << >>
               THEN [op |-> "node", id |-> globalId, status |-> "data",
                     fetched |-> object, type |-> "null", node |-> << >>]
             ELSE IF typeResolver(object[1]) = "Video"
               THEN [op |-> "node", id |-> globalId, status |-> "data",
                     fetched |-> object, type |-> "Video",
                     node |-> << videoType(object[1]) >>]
             ELSE [op |-> "node", id |-> globalId, status |-> "error",
                   fetched |-> object, type |-> typeResolver(object[1]),
                   error |-> "Abstract type Node must resolve to an Object type at runtime",
                   node |-> << >>]
  /\ UNCHANGED << videos, created >>

\* mutation { createVideo(video: input) {...} } of the plain schema
CreateVideo ==
  /\ response = Idle
  /\ Len(videos) < Len(InitialVideos) + MaxCreated
  /\ \E input \in VideoInputs :
       LET done == createVideoResolve([video |-> input], videos)
       IN  /\ videos' = done.videos
           /\ created' = Append(created, input)
           /\ response' = [op |-> "createVideo", input |-> input, status |-> "data",
                           video |-> videoType(done.video)]

\* mutation { createVideo(input: input) { video {...} clientMutationId } } of
\* the Relay schema: the payload of mutateAndGetPayload, to which
\* mutationWithClientMutationId adds the clientMutationId of the input.
CreateVideoRelay ==
  /\ response = Idle
  /\ Len(videos) < Len(InitialVideos) + MaxCreated
  /\ \E input \in VideoInputs, id \in ClientMutationIds :
       LET args == [title |-> input.title, duration |-> input.duration,
                    released |-> input.released, clientMutationId |-> id]
           done == mutateAndGetPayload(args, videos)
       IN  /\ videos' = done.videos
           /\ created' = Append(created, input)
           /\ response' = [op |-> "createVideoRelay", input |-> args, status |-> "data",
                           video |-> videoType(done.payload.video),
                           clientMutationId |-> id]

\* graphqlHTTP sends the response; the server waits for the next request.
Respond ==
  /\ response # Idle
  /\ response' = Idle
  /\ UNCHANGED << videos, created >>

Next ==
  \/ QueryVideos
  \/ QueryNode
  \/ CreateVideo
  \/ CreateVideoRelay
  \/ Respond

Spec == Init /\ [][Next]_vars

\* ---------------------------------------------------------------- claims
VideosAnswered == response.op = "videos" /\ response.status = "data"

\* The videos of the answered connection, as the client reads them.
Nodes == [i \in 1..Len(response.edges) |-> response.edges[i].node]

\* The stored videos at positions from..to (1-based), as a client reads them.
Views(from, to) == [i \in 1..(to - from + 1) |-> videoType(videos[from + i - 1])]

\* The position in the store of the video a client reads as node.
Position(node) == CHOOSE i \in 1..Len(videos) : videoType(videos[i]).id = node.id

\* C1: whatever the pagination arguments, the totalCount of the connection
\* the videos query returns is the number of stored videos.
C1_TotalCountIsLength ==
  (response.op = "videos" /\ response.status = "data")
    => response.totalCount = Len(videos)

\* C2: with only first: n, n >= 0, the videos query returns the first
\* min(n, len) stored videos, in order.
C2_FirstOnly ==
  (/\ response.op = "videos"
   /\ response.args.first # << >>
   /\ response.args.first[1] >= 0
   /\ response.args = [NoArgs EXCEPT !.first = response.args.first])
    => /\ response.status = "data"
       /\ Len(response.edges) = Min(response.args.first[1], Len(videos))
       /\ Nodes = Views(1, Min(response.args.first[1], Len(videos)))

\* C2 happens: first: 1 answered with one of three or more videos, and a
\* first larger than the store answered with all of it.
C2_Witness ==
  /\ VideosAnswered
  /\ response.args = [NoArgs EXCEPT !.first = << 1 >>]
  /\ Len(videos) >= 3
  /\ Len(response.edges) = 1
  /\ response.edges[1].node.title = videoA.title

\* C3: with only last: n, n >= 0, the videos query returns the last
\* min(n, len) stored videos, in order.
C3_LastOnly ==
  (/\ response.op = "videos"
   /\ response.args.last # << >>
   /\ response.args.last[1] >= 0
   /\ response.args = [NoArgs EXCEPT !.last = response.args.last])
    => /\ response.status = "data"
       /\ Nodes = Views(Len(videos) - Min(response.args.last[1], Len(videos)) + 1,
                        Len(videos))

\* C3 happens: last: 2 of three or more videos answered with the last two.
C3_Witness ==
  /\ VideosAnswered
  /\ response.args = [NoArgs EXCEPT !.last = << 2 >>]
  /\ Len(videos) >= 3
  /\ Len(response.edges) = 2
  /\ response.edges[2].node = videoType(videos[Len(videos)])

\* The cursors of the unpaginated connection over the stored videos.
UnpaginatedCursors ==
  LET conn == videosResolve(NoArgs, videos)
  IN  [i \in 1..Len(conn.edges) |-> conn.edges[i].cursor]

\* C4: with only after: c, c the cursor of the edge at offset i of the
\* unpaginated connection, the videos query returns the stored videos at
\* offsets i+1 .. len-1, in order.
C4_AfterCursor ==
  (/\ response.op = "videos"
   /\ response.args.after # << >>
   /\ response.args = [NoArgs EXCEPT !.after = response.args.after])
    => \A i \in 0..(Len(videos) - 1) :
         response.args.after = << UnpaginatedCursors[i + 1] >>
           => /\ response.status = "data"
              /\ Nodes = Views(i + 2, Len(videos))

\* C4 happens: the cursor of the first of three or more videos answered with
\* the videos after it, and the cursor of the last video with none.
C4_Witness ==
  /\ VideosAnswered
  /\ Len(videos) >= 3
  /\ response.args = [NoArgs EXCEPT !.after = << UnpaginatedCursors[1] >>]
  /\ Len(response.edges) = Len(videos) - 1

\* C5 as stated: hasPreviousPage is true whenever a stored video precedes the
\* retained window, hasNextPage whenever one follows it.
C5_FlagsReportOutside ==
  (response.op = "videos" /\ response.status = "data" /\ Len(response.edges) > 0)
    => /\ Position(Nodes[1]) > 1 => response.pageInfo.hasPreviousPage
       /\ Position(Nodes[Len(Nodes)]) < Len(videos) => response.pageInfo.hasNextPage

\* The number of edges the after and before steps leave, for the offsets
\* the two cursors stand for.
PoolSize(afterOffset, beforeOffset) ==
  Max(0, Min(beforeOffset, Len(videos)) - (Max(afterOffset, -1) + 1))

\* C5 amended: hasPreviousPage is true exactly when last is given and last
\* cut something off (or the after cursor stands for an offset below -1);
\* hasNextPage is true exactly when first is given and first cut something
\* off (or the before cursor stands for an offset beyond the end). What a
\* cursor alone excludes sets neither flag.
C5_FlagsReportTruncation ==
  (response.op = "videos" /\ response.status = "data")
    => LET afterOffset == getOffsetWithDefault(response.args.after, -1)
           beforeOffset == getOffsetWithDefault(response.args.before, Len(videos))
           poolSize == PoolSize(afterOffset, beforeOffset)
           afterFirstSize == IF response.args.first # << >>
                               THEN Min(response.args.first[1], poolSize)
                               ELSE poolSize
       IN  /\ response.pageInfo.hasPreviousPage
                = (/\ response.args.last # << >>
                   /\ \/ response.args.last[1] < afterFirstSize
                      \/ afterOffset < -1)
           /\ response.pageInfo.hasNextPage
                = (/\ response.args.first # << >>
                   /\ \/ response.args.first[1] < poolSize
                      \/ beforeOffset > Len(videos))

\* C5 happens: last cut off one of the two edges that first: 2 after the
\* first cursor had left.
C5_Witness ==
  /\ VideosAnswered
  /\ Len(videos) = 4
  /\ response.args = [first |-> << 2 >>, last |-> << 1 >>,
                      after |-> << UnpaginatedCursors[1] >>, before |-> << >>]
  /\ Len(response.edges) = 1
  /\ response.pageInfo.hasPreviousPage
  /\ response.pageInfo.hasNextPage

\* C6: a negative first or a negative last makes the videos query fail with
\* the invalid-argument error, whatever the other arguments; no connection
\* is returned.
C6_NegativeFails ==
  (/\ response.op = "videos"
   /\ \/ response.args.first # << >> /\ response.args.first[1] < 0
      \/ response.args.last # << >> /\ response.args.last[1] < 0)
    => /\ response.status = "error"
       /\ response.error \in { "Argument first must be a non-negative integer",
                               "Argument last must be a non-negative integer" }
       /\ "edges" \notin DOMAIN response

\* C6 happens: a negative last fails beside a valid first and an after cursor.
C6_Witness ==
  /\ response.op = "videos"
  /\ response.args.last = << -1 >>
  /\ response.args.first = << 1 >>
  /\ response.args.after # << >>
  /\ response.status = "error"

\* C7: a text that is no global id of a video ends in a MalformedIdentifier
\* failure of the node field.
C7_MalformedIdFails ==
  (response.op = "node" /\ response.id \in MalformedIdInputs)
    => /\ response.status = "error"
       /\ response.error = "MalformedIdentifier"

\* C8: the type resolver answers Video for every fetched object that has a
\* title field, whatever the title, and null for one without.
C8_TitleFieldDecidesType ==
  (response.op = "node" /\ response.fetched # << >>)
    => (response.type = "Video") = ("title" \in DOMAIN response.fetched[1])

C10_CreateAppends ==
  /\ Len(videos) = Len(InitialVideos) + Len(created)
  /\ SubSeq(videos, 1, Len(InitialVideos)) = InitialVideos
  /\ \A k \in 1..Len(created) :
       /\ videos[Len(InitialVideos) + k].title = created[k].title
       /\ videos[Len(InitialVideos) + k].duration = created[k].duration
       /\ videos[Len(InitialVideos) + k].released = created[k].released
  /\ \A i, j \in 1..Len(videos) : videos[i].id = videos[j].id => i = j
  /\ response.op \in { "createVideo", "createVideoRelay" }
       => /\ response.status = "data"
          /\ response.video.title = response.input.title
          /\ response.input.title = created[Len(created)].title
          /\ fromGlobalId(response.video.id)
               = [type |-> VideoName, id |-> videos[Len(videos)].id]
          /\ response.video = videoType(videos[Len(videos)])
  /\ response.op = "createVideoRelay"
       => response.clientMutationId = response.input.clientMutationId
  /\ (response.op = "videos" /\ response.args = NoArgs)
       => /\ response.status = "data"
          /\ Len(response.edges) = Len(InitialVideos) + Len(created)
          /\ \A i \in 1..Len(response.edges) :
               /\ response.edges[i].node.id = toGlobalId(VideoName, videos[i].id)
               /\ response.edges[i].node.title =
                    IF i <= Len(InitialVideos) THEN InitialVideos[i].title
                    ELSE created[i - Len(InitialVideos)].title

\* C10 happens: the Relay mutation answers for the second created video.
C10_Witness ==
  /\ response.op = "createVideoRelay"
  /\ Len(created) = 2
  /\ response.video.title = Foo
  /\ videos[Len(videos)].title = Foo

====
